---- MODULE Spec2Model ----
(***************************************************************************)
(* State-machine model of gestion-escolar/streamlit_app.py: the SQLite     *)
(* tables the page handlers write (students, teachers, subjects, classes,  *)
(* attendance, grades, exams), the exam files in EXAMS_DIR, and the two    *)
(* read-side aggregations (attendance summary, weighted grade average).    *)
(*                                                                         *)
(* One action per button handler.  A handler runs to completion inside one *)
(* Streamlit script run, so each action is atomic.  Columns that no        *)
(* handler reads back and no aggregation uses (first_name, last_name,      *)
(* email, description, schedule, note, upload_date, uploaded_by) are left  *)
(* out of the rows.  Text values that the code converts (strip, read_csv + *)
(* str) are sequences of one-character strings so the conversion can be    *)
(* computed.  REAL columns are exact rationals kept as scaled integers.    *)
(***************************************************************************)
EXTENDS Integers, Sequences, FiniteSets, Bags, TLC

\* ------------------------------------------------------------ bounds
MaxBatch == 2        \* rows in one imported CSV
MaxClasses == 2      \* rows of the classes table (it has no unique key)
MaxAttendance == 3   \* rows of the attendance table
MaxGrades == 3       \* rows of the grades table
MaxUploads == 2      \* exam ids handed out per database file
MaxClock == 1        \* last second of the wall clock that is modelled

\* ------------------------------------------------------------ inputs
\* the file_uploader widget holding no file
NoFile == [uploaded |-> FALSE, columns_ok |-> FALSE, codes |-> <<>>]
Whitespace == {" "}
Digits == {"0", "7"}
\* student_code cells as they stand in the CSV text
RawCodes == { <<"A", "1">>, <<"7">>, <<"0", "7">> }
\* text typed into the name field of the teacher and subject forms
NameInputs == { <<>>, <<" ">>, <<"A">>, <<" ", "A">>, <<"A", " ">>, <<"B">> }
ClassNames == {"3A"}
Dates == {"d1", "d2", "d3"}
ExamFileNames == {"a.pdf", "b.pdf"}

RECURSIVE SeqsUpTo(_, _)
SeqsUpTo(S, n) ==
    IF n = 0 THEN { <<>> }
    ELSE LET shorter == SeqsUpTo(S, n - 1)
         IN  shorter \cup { Append(q, x) : q \in shorter, x \in S }

\* an uploaded CSV: whether its header has the required columns, and the
\* student_code cell of each data row
CsvFiles ==
    [ uploaded : {TRUE}, columns_ok : BOOLEAN, codes : SeqsUpTo(RawCodes, MaxBatch) ]

\* ------------------------------------------------------------ state
VARIABLES
    students,      \* sequence of [id, student_code], in rowid order
    teachers,      \* sequence of [id, name]
    subjects,      \* sequence of [id, name]
    classes,       \* sequence of [id, subject_id, teacher_id, class_name]
    attendance,    \* bag of [class_id, student_id, date, present]
    grades,        \* bag of [class_id, student_id, grade, weight]
    exams,         \* set of [id, file_name, original_name]; ids are never reused
    examSeq,       \* sqlite_sequence of exams: the largest id handed out
    files,         \* EXAMS_DIR: file name -> "complete" | "partial"
    now,           \* datetime.now(), in whole seconds
    last           \* the handler that ran last, its input and its feedback

vars == << students, teachers, subjects, classes, attendance, grades,
           exams, examSeq, files, now, last >>

dbVars == << students, teachers, subjects, classes, attendance, grades,
             exams, examSeq >>

Range(s) == { s[i] : i \in DOMAIN s }

StudentCodes(rows) == { rows[i].student_code : i \in DOMAIN rows }
Names(rows) == { rows[i].name : i \in DOMAIN rows }

\* what the last handler was given and which st.* feedback call it ended in
Feedback(op, msg, arg) == [op |-> op, msg |-> msg, arg |-> arg]

Init ==
    /\ students = <<>>
    /\ teachers = <<>>
    /\ subjects = <<>>
    /\ classes = <<>>
    /\ attendance = EmptyBag
    /\ grades = EmptyBag
    /\ exams = {}
    /\ examSeq = 0
    /\ files = << >>
    /\ now = 0
    /\ last = Feedback("init", "none", <<>>)

\* ------------------------------------------------------------ helpers
\* str.strip() on the form's text
RECURSIVE LStrip(_)
LStrip(s) ==
    IF s # <<>> /\ Head(s) \in Whitespace THEN LStrip(Tail(s)) ELSE s

RECURSIVE RStrip(_)
RStrip(s) ==
    IF s # <<>> /\ s[Len(s)] \in Whitespace
    THEN RStrip(SubSeq(s, 1, Len(s) - 1))
    ELSE s

Strip(s) == RStrip(LStrip(s))

\* pandas.read_csv infers one dtype per column: a column whose cells are all
\* digit strings is read as int64, and str() of the int drops leading zeros;
\* any other column stays text, cell by cell as written
IsDigits(s) == s # <<>> /\ \A i \in DOMAIN s : s[i] \in Digits

RECURSIVE IntStr(_)
IntStr(s) == IF Len(s) > 1 /\ Head(s) = "0" THEN IntStr(Tail(s)) ELSE s

ReadCsvCodes(cells) ==
    IF \A i \in DOMAIN cells : IsDigits(cells[i])
    THEN [ i \in DOMAIN cells |-> IntStr(cells[i]) ]
    ELSE cells

\* the UNIQUE column constraint: sqlite3.IntegrityError on a value already
\* held by a row of the table
IntegrityError_NoUnique(keys, value) == FALSE

IntegrityError(keys, value) == value \in keys

\* the import loop: one INSERT (and commit) per row, any exception swallowed
RECURSIVE ImportRows_AbortOnDuplicate(_, _)
ImportRows_AbortOnDuplicate(rows, codes) ==
    IF codes = <<>> THEN rows
    ELSE IF IntegrityError(StudentCodes(rows), Head(codes))
         THEN rows
         ELSE ImportRows_AbortOnDuplicate(
                  Append(rows, [id |-> Len(rows) + 1, student_code |-> Head(codes)]),
                  Tail(codes))

RECURSIVE ImportRows(_, _)
ImportRows(rows, codes) ==
    IF codes = <<>> THEN rows
    ELSE IF IntegrityError(StudentCodes(rows), Head(codes))
         THEN ImportRows(rows, Tail(codes))
         ELSE ImportRows(
                  Append(rows, [id |-> Len(rows) + 1, student_code |-> Head(codes)]),
                  Tail(codes))

\* ------------------------------------------------------------ actions
\* 'Importar CSV'
ImportCSV(cfile) ==
    /\ IF ~cfile.uploaded
       THEN /\ last' = Feedback("import", "warning", cfile)
            /\ UNCHANGED students
       ELSE IF ~cfile.columns_ok
       THEN /\ last' = Feedback("import", "error", cfile)
            /\ UNCHANGED students
       ELSE /\ students' = ImportRows(students, ReadCsvCodes(cfile.codes))
            /\ last' = Feedback("import", "success", cfile)
    /\ UNCHANGED << teachers, subjects, classes, attendance, grades,
                    exams, examSeq, files, now >>

\* 'Agregar profesor'
AgregarProfesor_SwallowDuplicate(name) ==
    /\ IF Strip(name) = <<>>
       THEN /\ last' = Feedback("teacher", "warning", name)
            /\ UNCHANGED teachers
       ELSE /\ last' = Feedback("teacher", "success", name)
            /\ IF IntegrityError(Names(teachers), Strip(name))
               THEN UNCHANGED teachers
               ELSE teachers' = Append(teachers,
                        [id |-> Len(teachers) + 1, name |-> Strip(name)])
    /\ UNCHANGED << students, subjects, classes, attendance, grades,
                    exams, examSeq, files, now >>

AgregarProfesor(name) ==
    /\ IF Strip(name) = <<>>
       THEN /\ last' = Feedback("teacher", "warning", name)
            /\ UNCHANGED teachers
       ELSE IF IntegrityError(Names(teachers), Strip(name))
       THEN /\ last' = Feedback("teacher", "error", name)
            /\ UNCHANGED teachers
       ELSE /\ teachers' = Append(teachers,
                    [id |-> Len(teachers) + 1, name |-> Strip(name)])
            /\ last' = Feedback("teacher", "success", name)
    /\ UNCHANGED << students, subjects, classes, attendance, grades,
                    exams, examSeq, files, now >>

\* 'Crear materia'
CrearMateria(name) ==
    /\ IF Strip(name) = <<>>
       THEN /\ last' = Feedback("subject", "warning", name)
            /\ UNCHANGED subjects
       ELSE IF IntegrityError(Names(subjects), Strip(name))
       THEN /\ last' = Feedback("subject", "error", name)
            /\ UNCHANGED subjects
       ELSE /\ subjects' = Append(subjects,
                    [id |-> Len(subjects) + 1, name |-> Strip(name)])
            /\ last' = Feedback("subject", "success", name)
    /\ UNCHANGED << students, teachers, classes, attendance, grades,
                    exams, examSeq, files, now >>

\* 'Borrar BD (Elimina TODO)': the connection is closed, the database file
\* is unlinked (a failure of the unlink is swallowed) and the script reruns,
\* which reconnects and recreates the empty tables.  EXAMS_DIR is untouched.
BorrarBD(unlinked) ==
    /\ IF unlinked
       THEN /\ students' = <<>>
            /\ teachers' = <<>>
            /\ subjects' = <<>>
            /\ classes' = <<>>
            /\ attendance' = EmptyBag
            /\ grades' = EmptyBag
            /\ exams' = {}
            /\ examSeq' = 0
       ELSE UNCHANGED dbVars
    /\ last' = Feedback("wipe", "rerun", unlinked)
    /\ UNCHANGED << files, now >>

\* ------------------------------------------------------------ the store
NextStore ==
    \/ \E cfile \in {NoFile} \cup CsvFiles : ImportCSV(cfile)
    \/ \E name \in NameInputs : AgregarProfesor(name)
    \/ \E name \in NameInputs : CrearMateria(name)
    \/ \E unlinked \in BOOLEAN : BorrarBD(unlinked)

SpecStore == Init /\ [][NextStore]_vars

\* ------------------------------------------------------------ classes
\* 'Crear clase': subject and teacher are chosen among the stored rows or
\* left at None (0); the table has no unique key
CrearClase(subject, teacher, cname) ==
    /\ Len(classes) < MaxClasses
    /\ classes' = Append(classes,
           [id |-> Len(classes) + 1, subject_id |-> subject,
            teacher_id |-> teacher, class_name |-> cname])
    /\ last' = Feedback("class", "success", cname)
    /\ UNCHANGED << students, teachers, subjects, attendance, grades,
                    exams, examSeq, files, now >>

\* ------------------------------------------------------------ attendance
\* The attendance and grades tables are bags of rows without the id column:
\* an id only names a row, for the UPDATE of the row a SELECT just returned,
\* and a bag keeps how many rows there are of each content.

Row(class_id, sid, date, is_present) ==
    [class_id |-> class_id, student_id |-> sid, date |-> date,
     present |-> IF is_present THEN 1 ELSE 0]

\* the rows SELECT id FROM attendance WHERE class_id=? AND student_id=? AND
\* date=? returns
FoundAttendance(att, class_id, sid, date) ==
    { r \in BagToSet(att) : /\ r.class_id = class_id
                            /\ r.student_id = sid
                            /\ r.date = date }

\* the body of the save loop for one student: UPDATE the row fetchone()
\* returned, or INSERT a new one
SaveAttendance_AlwaysInsert(att, class_id, sid, date, is_present) ==
    att (+) SetToBag({ Row(class_id, sid, date, is_present) })

SaveAttendance(att, class_id, sid, date, is_present) ==
    LET found == FoundAttendance(att, class_id, sid, date)
    IN  IF found # {}
        THEN LET row == CHOOSE r \in found : TRUE
             IN  (att (-) SetToBag({row}))
                     (+) SetToBag({ [row EXCEPT !.present = IF is_present THEN 1 ELSE 0] })
        ELSE att (+) SetToBag({ Row(class_id, sid, date, is_present) })

\* for sid, is_present in present.items(): one pass over the students listed
RECURSIVE SaveAll(_, _, _, _, _)
SaveAll(att, class_id, date, present, sids) ==
    IF sids = <<>> THEN att
    ELSE SaveAll(SaveAttendance(att, class_id, Head(sids), date, present[Head(sids)]),
                 class_id, date, present, Tail(sids))

StudentIds(rows) == [ i \in DOMAIN rows |-> rows[i].id ]

\* 'Guardar asistencia': a class is selected, the students table is not
\* empty, and every listed student has a checkbox value.  last.arg keeps the
\* input and for how many students the SELECT found a row.
GuardarAsistencia(class_id, date, present) ==
    /\ class_id \in { classes[i].id : i \in DOMAIN classes }
    /\ students # <<>>
    /\ DOMAIN present = Range(StudentIds(students))
    /\ LET saved == SaveAll(attendance, class_id, date, present, StudentIds(students))
       IN  /\ BagCardinality(saved) <= MaxAttendance
           /\ attendance' = saved
    /\ last' = Feedback("attendance", "success",
                  [class_id |-> class_id, date |-> date, present |-> present,
                   found |-> Cardinality({ sid \in DOMAIN present :
                       FoundAttendance(attendance, class_id, sid, date) # {} })])
    /\ UNCHANGED << students, teachers, subjects, classes, grades,
                    exams, examSeq, files, now >>

\* .round(n) of the quotient num/den (den > 0, num >= 0) scaled to an
\* integer: the nearest integer, a tie going to the even one
RoundHalfEven_Truncate(num, den) == num \div den

RoundHalfEven(num, den) ==
    LET q == num \div den
        r == num % den
    IN  IF 2 * r < den THEN q
        ELSE IF 2 * r > den THEN q + 1
        ELSE IF q % 2 = 0 THEN q ELSE q + 1

\* SUM(term) over the rows of the bag that are in the set rows, term being
\* a function of the row; COUNT(id) is the sum of 1
RECURSIVE BagSum(_, _, _)
BagSum(bag, rows, term) ==
    IF rows = {} THEN 0
    ELSE LET r == CHOOSE r \in rows : TRUE
         IN  CopiesIn(r, bag) * term[r] + BagSum(bag, rows \ {r}, term)

BagCount(bag, rows) == BagSum(bag, rows, [ r \in rows |-> 1 ])

\* att['percent'] = (presents / total * 100).round(1), in tenths of a percent
AttPercent(presents, total) == RoundHalfEven(presents * 1000, total)

\* 'Resumen de asistencia': attendance JOIN students WHERE class_id=?
\* GROUP BY student_id, with SUM(present), COUNT(id) and the percent column
ResumenAsistencia_AllClasses(att, studs, class_id) ==
    LET joined(sid) == { r \in BagToSet(att) : r.student_id = sid }
        groups == { sid \in Range(StudentIds(studs)) : joined(sid) # {} }
    IN  { [student_id |-> sid,
           presents |-> BagSum(att, joined(sid), [ r \in joined(sid) |-> r.present ]),
           total |-> BagCount(att, joined(sid)),
           percent |-> AttPercent(BagSum(att, joined(sid), [ r \in joined(sid) |-> r.present ]),
                                  BagCount(att, joined(sid)))] : sid \in groups }

ResumenAsistencia(att, studs, class_id) ==
    LET joined(sid) == { r \in BagToSet(att) : /\ r.class_id = class_id
                                               /\ r.student_id = sid }
        groups == { sid \in Range(StudentIds(studs)) : joined(sid) # {} }
    IN  { [student_id |-> sid,
           presents |-> BagSum(att, joined(sid), [ r \in joined(sid) |-> r.present ]),
           total |-> BagCount(att, joined(sid)),
           percent |-> AttPercent(BagSum(att, joined(sid), [ r \in joined(sid) |-> r.present ]),
                                  BagCount(att, joined(sid)))] : sid \in groups }

\* the students and classes the attendance and grade pages work on
RosterFiles ==
    { [uploaded |-> TRUE, columns_ok |-> TRUE, codes |-> << <<"A", "1">> >>],
      [uploaded |-> TRUE, columns_ok |-> TRUE, codes |-> << <<"7">> >>] }

NextAttendance ==
    \/ \E cfile \in RosterFiles : ImportCSV(cfile)
    \/ \E cname \in ClassNames : CrearClase(0, 0, cname)
    \/ \E class_id \in 1..MaxClasses, date \in Dates :
          \E present \in [ 1..Len(students) -> BOOLEAN ] :
              GuardarAsistencia(class_id, date, present)
    \/ \E unlinked \in BOOLEAN : BorrarBD(unlinked)

SpecAttendance == Init /\ [][NextAttendance]_vars

\* ------------------------------------------------------------ grades
\* (grade, weight) pairs entered in the two number inputs, 'Nota' (0..100,
\* step 0.5) in half points and 'Peso' (0..10, step 0.1) in tenths: 70 with
\* weight 0, 80 and 90 with weight 1, 90 with weight 3
NotaInputs ==
    { [grade |-> 140, weight |-> 0], [grade |-> 160, weight |-> 10],
      [grade |-> 180, weight |-> 10], [grade |-> 180, weight |-> 30] }

\* 'Guardar nota': a class is selected and a listed student is chosen
GuardarNota_Replace(class_id, student_id, grade, weight) ==
    /\ class_id \in { classes[i].id : i \in DOMAIN classes }
    /\ student_id \in Range(StudentIds(students))
    /\ BagCardinality(grades) < MaxGrades
    /\ LET kept == { r \in BagToSet(grades) :
                       r.class_id # class_id \/ r.student_id # student_id }
       IN  grades' = [ r \in kept |-> grades[r] ]
                       (+) SetToBag({ [class_id |-> class_id, student_id |-> student_id,
                                       grade |-> grade, weight |-> weight] })
    /\ last' = Feedback("grade", "success", <<>>)
    /\ UNCHANGED << students, teachers, subjects, classes, attendance,
                    exams, examSeq, files, now >>

GuardarNota(class_id, student_id, grade, weight) ==
    /\ class_id \in { classes[i].id : i \in DOMAIN classes }
    /\ student_id \in Range(StudentIds(students))
    /\ BagCardinality(grades) < MaxGrades
    /\ grades' = grades (+) SetToBag({ [class_id |-> class_id, student_id |-> student_id,
                                        grade |-> grade, weight |-> weight] })
    /\ last' = Feedback("grade", "success", <<>>)
    /\ UNCHANGED << students, teachers, subjects, classes, attendance,
                    exams, examSeq, files, now >>

\* avg_df['promedio'] = (avg_df['suma'] / avg_df['pesos']).round(2): float64
\* division gives NaN for 0/0 and inf for x/0 without raising, and round
\* keeps both; a number is in hundredths of a point (suma is in half points
\* times tenths, pesos in tenths)
Promedio_ZeroWhenNoWeight(suma, pesos) ==
    IF pesos = 0
    THEN [kind |-> "number", value |-> 0]
    ELSE [kind |-> "number", value |-> RoundHalfEven(50 * suma, pesos)]

Promedio(suma, pesos) ==
    IF pesos = 0
    THEN [kind |-> IF suma = 0 THEN "nan" ELSE "inf", value |-> 0]
    ELSE [kind |-> "number", value |-> RoundHalfEven(50 * suma, pesos)]

\* 'Promedio ponderado por estudiante': grades JOIN students WHERE class_id=?
\* GROUP BY s.id, with SUM(grade * weight), SUM(weight) and the promedio column
PromedioPonderado(gr, studs, class_id) ==
    LET joined(sid) == { r \in BagToSet(gr) : /\ r.class_id = class_id
                                              /\ r.student_id = sid }
        suma(sid) == BagSum(gr, joined(sid), [ r \in joined(sid) |-> r.grade * r.weight ])
        pesos(sid) == BagSum(gr, joined(sid), [ r \in joined(sid) |-> r.weight ])
        groups == { sid \in Range(StudentIds(studs)) : joined(sid) # {} }
    IN  { [id |-> sid, suma |-> suma(sid), pesos |-> pesos(sid),
           promedio |-> Promedio(suma(sid), pesos(sid))] : sid \in groups }

NextGrades ==
    \/ \E cfile \in RosterFiles : ImportCSV(cfile)
    \/ \E cname \in ClassNames : CrearClase(0, 0, cname)
    \/ \E class_id \in 1..MaxClasses, student_id \in 1..Len(students), nota \in NotaInputs :
          GuardarNota(class_id, student_id, nota.grade, nota.weight)
    \/ \E unlinked \in BOOLEAN : BorrarBD(unlinked)

SpecGrades == Init /\ [][NextGrades]_vars

\* ------------------------------------------------------------ exams
\* the file_uploader of the exam page: empty, or holding a file of some name
NoExamFile == [uploaded |-> FALSE, name |-> ""]
ExamFiles == [ uploaded : {TRUE}, name : ExamFileNames ]

\* f"exam_{timestamp}_{file.name}" with timestamp = now().strftime('%Y%m%d%H%M%S'):
\* the second of the clock and the original name
SafeName(timestamp, name) == << timestamp, name >>

\* 'Subir examen'.  io is what the file system does: "ok", "open_fails" (the
\* file is not opened, nothing is written) or "write_fails" (the file was
\* opened, hence created or truncated, and the write raised).  An exception
\* leaves the handler at once.
SubirExamen_RecordAnyway(file, io) ==
    /\ examSeq < MaxUploads
    /\ IF ~file.uploaded
       THEN /\ last' = Feedback("upload", "warning", [file |-> file, io |-> io])
            /\ UNCHANGED << exams, examSeq, files >>
       ELSE LET safe_name == SafeName(now, file.name)
            IN  /\ files' = IF io = "open_fails" THEN files
                            ELSE [ n \in DOMAIN files \cup {safe_name} |->
                                     IF n = safe_name
                                     THEN (IF io = "ok" THEN "complete" ELSE "partial")
                                     ELSE files[n] ]
                /\ exams' = exams \cup { [id |-> examSeq + 1, file_name |-> safe_name,
                                          original_name |-> file.name] }
                /\ examSeq' = examSeq + 1
                /\ last' = Feedback("upload", "success", [file |-> file, io |-> io])
    /\ UNCHANGED << students, teachers, subjects, classes, attendance, grades, now >>

SubirExamen(file, io) ==
    /\ examSeq < MaxUploads
    /\ IF ~file.uploaded
       THEN /\ last' = Feedback("upload", "warning", [file |-> file, io |-> io])
            /\ UNCHANGED << exams, examSeq, files >>
       ELSE LET safe_name == SafeName(now, file.name)
            IN  IF io = "open_fails"
                THEN /\ last' = Feedback("upload", "exception", [file |-> file, io |-> io])
                     /\ UNCHANGED << exams, examSeq, files >>
                ELSE IF io = "write_fails"
                THEN /\ files' = [ n \in DOMAIN files \cup {safe_name} |->
                                     IF n = safe_name THEN "partial" ELSE files[n] ]
                     /\ last' = Feedback("upload", "exception", [file |-> file, io |-> io])
                     /\ UNCHANGED << exams, examSeq >>
                ELSE /\ files' = [ n \in DOMAIN files \cup {safe_name} |->
                                     IF n = safe_name THEN "complete" ELSE files[n] ]
                     /\ exams' = exams \cup { [id |-> examSeq + 1, file_name |-> safe_name,
                                               original_name |-> file.name] }
                     /\ examSeq' = examSeq + 1
                     /\ last' = Feedback("upload", "success", [file |-> file, io |-> io])
    /\ UNCHANGED << students, teachers, subjects, classes, attendance, grades, now >>

\* 'Ejecutar acción' with 'Eliminar': filepath.unlink() inside try/except
\* (the file may be missing, or the unlink may be refused), then the DELETE
\* of the selected id.  last.arg keeps the selected id and how the unlink went.
Eliminar_UnlinkMustSucceed(sel, unlink_ok) ==
    /\ \E row \in exams :
          /\ row.id = sel
          /\ LET filepath == row.file_name
                 unlink == IF filepath \notin DOMAIN files THEN "missing"
                           ELSE IF unlink_ok THEN "removed" ELSE "refused"
             IN  IF unlink = "removed"
                 THEN /\ files' = [ n \in DOMAIN files \ {filepath} |-> files[n] ]
                      /\ exams' = { e \in exams : e.id # sel }
                      /\ last' = Feedback("delete", "success", [sel |-> sel, unlink |-> unlink])
                 ELSE /\ UNCHANGED << files, exams >>
                      /\ last' = Feedback("delete", "exception", [sel |-> sel, unlink |-> unlink])
    /\ UNCHANGED << students, teachers, subjects, classes, attendance, grades,
                    examSeq, now >>

Eliminar(sel, unlink_ok) ==
    /\ \E row \in exams :
          /\ row.id = sel
          /\ LET filepath == row.file_name
                 unlink == IF filepath \notin DOMAIN files THEN "missing"
                           ELSE IF unlink_ok THEN "removed" ELSE "refused"
             IN  /\ files' = IF unlink = "removed"
                             THEN [ n \in DOMAIN files \ {filepath} |-> files[n] ]
                             ELSE files
                 /\ last' = Feedback("delete", "success", [sel |-> sel, unlink |-> unlink])
    /\ exams' = { e \in exams : e.id # sel }
    /\ UNCHANGED << students, teachers, subjects, classes, attendance, grades,
                    examSeq, now >>

\* 'Ejecutar acción' with 'Descargar': the file is read; a missing file raises
Descargar(sel) ==
    /\ \E row \in exams :
          /\ row.id = sel
          /\ last' = Feedback("download",
                         IF row.file_name \in DOMAIN files THEN "success" ELSE "exception",
                         sel)
    /\ UNCHANGED << students, teachers, subjects, classes, attendance, grades,
                    exams, examSeq, files, now >>

\* the wall clock reaches the next second
Tick ==
    /\ now < MaxClock
    /\ now' = now + 1
    /\ UNCHANGED << students, teachers, subjects, classes, attendance, grades,
                    exams, examSeq, files, last >>

NextExams ==
    \/ \E file \in {NoExamFile} \cup ExamFiles, io \in {"ok", "open_fails", "write_fails"} :
          SubirExamen(file, io)
    \/ \E sel \in 1..MaxUploads, unlink_ok \in BOOLEAN : Eliminar(sel, unlink_ok)
    \/ \E sel \in 1..MaxUploads : Descargar(sel)
    \/ Tick
    \/ \E unlinked \in BOOLEAN : BorrarBD(unlinked)

SpecExams == Init /\ [][NextExams]_vars

\* ------------------------------------------------------------ claims, store
\* C2: in every reachable state no two student rows share a student_code,
\* no two teacher rows share a name and no two subject rows share a name.
C2_UniqueKeys ==
    /\ \A i, j \in DOMAIN students :
           students[i].student_code = students[j].student_code => i = j
    /\ \A i, j \in DOMAIN teachers : teachers[i].name = teachers[j].name => i = j
    /\ \A i, j \in DOMAIN subjects : subjects[i].name = subjects[j].name => i = j

\* a duplicate teacher was just refused while all three tables hold rows
C2_Witness ==
    /\ last.op = "teacher" /\ last.msg = "error"
    /\ Len(students) >= 2 /\ Len(teachers) >= 2 /\ Len(subjects) >= 2

\* position of the first cell of codes that reads as code
FirstAt(codes, code) ==
    CHOOSE i \in DOMAIN codes :
        codes[i] = code /\ \A k \in 1..(i - 1) : codes[k] # code

\* C3: an import of a batch that has the required columns ends in the success
\* message (a step that ends with last.op = "import" is a step of the import
\* handler and last.arg is the file it was given); the rows that were in the table stay as they were (nothing is
\* rolled back); afterwards the table holds exactly one row for every code
\* that was in the table or in the batch, so each duplicate is skipped and
\* each new code is inserted whether it stands before or after a duplicate;
\* the new rows stand in the order in which the batch first names them.
C3_ImportSkipsDuplicates ==
    [][ (last'.op = "import" /\ last'.arg.uploaded /\ last'.arg.columns_ok) =>
             LET codes == ReadCsvCodes(last'.arg.codes)
                 old == Len(students)
             IN  /\ last'.msg = "success"
                 /\ Len(students') >= old
                 /\ SubSeq(students', 1, old) = students
                 /\ StudentCodes(students') = StudentCodes(students) \cup Range(codes)
                 /\ \A i, j \in DOMAIN students' :
                        students'[i].student_code = students'[j].student_code => i = j
                 /\ \A i \in DOMAIN students' : students'[i].id = i
                 /\ \A i, j \in (old + 1)..Len(students') :
                        i < j => FirstAt(codes, students'[i].student_code)
                                   < FirstAt(codes, students'[j].student_code)
      ]_vars

\* an import just ended whose first row was a duplicate of a row stored by an
\* earlier import and whose second row was inserted after it
C3_Witness ==
    /\ last.op = "import" /\ last.msg = "success"
    /\ Len(last.arg.codes) = 2
    /\ Len(students) >= 2
    /\ LET codes == ReadCsvCodes(last.arg.codes)
       IN  /\ students[Len(students)].student_code = codes[2]
           /\ \E k \in 1..(Len(students) - 2) : students[k].student_code = codes[1]

\* C4: creating a teacher (a subject) whose stripped name is the name of an
\* existing row ends in the error message, not in success, and leaves the
\* table as it was, with exactly one row of that name (last.arg is the name
\* as typed).
C4_DuplicateNameReported ==
    [][ /\ (last'.op = "teacher" /\ Strip(last'.arg) \in Names(teachers)) =>
             /\ last'.msg = "error"
             /\ teachers' = teachers
             /\ Cardinality({ i \in DOMAIN teachers' :
                                teachers'[i].name = Strip(last'.arg) }) = 1
        /\ (last'.op = "subject" /\ Strip(last'.arg) \in Names(subjects)) =>
             /\ last'.msg = "error"
             /\ subjects' = subjects
             /\ Cardinality({ i \in DOMAIN subjects' :
                                subjects'[i].name = Strip(last'.arg) }) = 1
      ]_vars

\* a teacher name typed with surrounding blanks was just refused as a duplicate
C4_Witness ==
    /\ last.op = "teacher" /\ last.msg = "error"
    /\ last.arg # Strip(last.arg)
    /\ Cardinality({ i \in DOMAIN teachers : teachers[i].name = Strip(last.arg) }) = 1

\* ------------------------------------------------------------ claims, attendance
ClassIds == { classes[i].id : i \in DOMAIN classes }

\* the attendance rows of one student in one class, as a bag
AttendanceOf(class_id, sid) ==
    LET rows == { r \in BagToSet(attendance) :
                      r.class_id = class_id /\ r.student_id = sid }
    IN  [ r \in rows |-> attendance[r] ]

\* C1: the attendance table never holds two rows of one (class, student,
\* date); a save leaves, for every listed student, exactly one row of the
\* saved class and date, holding the value just given, adds a row only for
\* the students that had none, and leaves the rows of every other class or
\* date as they were; no other handler but the database wipe changes the
\* table, so the row keeps the value of the most recent save.
C1_AttendanceUpsert ==
    /\ [](\A r1, r2 \in BagToSet(attendance) :
             /\ CopiesIn(r1, attendance) = 1
             /\ (r1.class_id = r2.class_id /\ r1.student_id = r2.student_id
                   /\ r1.date = r2.date) => r1 = r2)
    /\ [][ /\ last'.op = "attendance" =>
                LET a == last'.arg
                IN  /\ \A sid \in DOMAIN a.present :
                           /\ FoundAttendance(attendance', a.class_id, sid, a.date)
                                = { Row(a.class_id, sid, a.date, a.present[sid]) }
                           /\ CopiesIn(Row(a.class_id, sid, a.date, a.present[sid]),
                                       attendance') = 1
                    /\ \A r \in BagToSet(attendance) \cup BagToSet(attendance') :
                           (r.class_id # a.class_id \/ r.date # a.date) =>
                               CopiesIn(r, attendance') = CopiesIn(r, attendance)
                    /\ BagCardinality(attendance') =
                           BagCardinality(attendance)
                             + Cardinality(DOMAIN a.present) - a.found
           /\ last'.op \notin {"attendance", "wipe"} => attendance' = attendance
         ]_vars

\* attendance of a recorded (class, date) was just saved again, beside rows of
\* another class or date
C1_Witness ==
    /\ last.op = "attendance"
    /\ last.arg.found >= 1
    /\ \E r \in BagToSet(attendance) :
           r.class_id # last.arg.class_id \/ r.date # last.arg.date

PercentExact(percent, presents, total) == percent * total = presents * 1000

PercentRounded(percent, presents, total) ==
    LET d == percent * total - presents * 1000
    IN  2 * d <= total /\ 2 * (0 - d) <= total

\* what C8 says of the summary of one class, with the percent exact or rounded
AttendanceSummaryIs(class_id, exact) ==
    LET summary == ResumenAsistencia(attendance, students, class_id)
    IN  /\ \A res \in summary :
               /\ res.student_id \in Range(StudentIds(students))
               /\ AttendanceOf(class_id, res.student_id) # EmptyBag
        /\ \A sid \in Range(StudentIds(students)) :
               LET mine == AttendanceOf(class_id, sid)
                   shown == { res \in summary : res.student_id = sid }
               IN  IF mine = EmptyBag
                   THEN shown = {}
                   ELSE /\ Cardinality(shown) = 1
                        /\ \A res \in shown :
                               /\ res.total = BagCardinality(mine)
                               /\ res.presents = BagCardinality(
                                      [ r \in { x \in DOMAIN mine : x.present = 1 }
                                            |-> mine[r] ])
                               /\ IF exact
                                  THEN PercentExact(res.percent, res.presents, res.total)
                                  ELSE PercentRounded(res.percent, res.presents, res.total)

\* C8 as written: the summary of a class has one result for each student with
\* a record in the class, with presents and total the counts of the
\* student's present records and records in the class, and percent equal to
\* presents/total*100; students without a record in the class are omitted.
C8_PercentExact ==
    \A class_id \in ClassIds : AttendanceSummaryIs(class_id, TRUE)

\* C8 as amended: the same, with percent equal to presents/total*100 rounded
\* to one decimal place; 3 present of 4 give 75.0.
C8_AttendanceSummary ==
    /\ \A class_id \in ClassIds : AttendanceSummaryIs(class_id, FALSE)
    /\ AttPercent(3, 4) = 750

\* one student has three records in a class, two of them present (66.7 %),
\* and another student has none in that class
C8_Witness ==
    \E class_id \in ClassIds :
        \E s1, s2 \in Range(StudentIds(students)) :
            /\ \E res \in ResumenAsistencia(attendance, students, class_id) :
                   res.student_id = s1 /\ res.total = 3 /\ res.presents = 2
            /\ AttendanceOf(class_id, s2) = EmptyBag

\* ------------------------------------------------------------ claims, grades
\* the grade rows of one student in one class, as a bag
GradesOf(class_id, sid) ==
    LET rows == { r \in BagToSet(grades) :
                      r.class_id = class_id /\ r.student_id = sid }
    IN  [ r \in rows |-> grades[r] ]

RECURSIVE Sigma(_)
Sigma(f) ==
    IF DOMAIN f = {} THEN 0
    ELSE LET x == CHOOSE x \in DOMAIN f : TRUE
         IN  f[x] + Sigma([ y \in DOMAIN f \ {x} |-> f[y] ])

SumWeights(bag) == Sigma([ r \in DOMAIN bag |-> bag[r] * r.weight ])
SumGradeWeights(bag) == Sigma([ r \in DOMAIN bag |-> bag[r] * r.grade * r.weight ])

\* C6: a student whose grade rows in a class all have weight 0 gets a result
\* whose average is NaN: the aggregation gives a result (no error) and the
\* result is not a number, so not the grade either.
C6_ZeroWeightUndefined ==
    \A class_id \in ClassIds : \A sid \in Range(StudentIds(students)) :
        LET mine == GradesOf(class_id, sid)
        IN  (mine # EmptyBag /\ SumWeights(mine) = 0) =>
                /\ \E res \in PromedioPonderado(grades, students, class_id) :
                       res.id = sid
                /\ \A res \in PromedioPonderado(grades, students, class_id) :
                       res.id = sid => res.promedio.kind = "nan"

\* a student has only a grade 70 of weight 0 in a class where another student
\* has a weighted grade
C6_Witness ==
    \E class_id \in ClassIds : \E s1, s2 \in Range(StudentIds(students)) :
        /\ GradesOf(class_id, s1) = SetToBag({ [class_id |-> class_id,
               student_id |-> s1, grade |-> 140, weight |-> 0] })
        /\ GradesOf(class_id, s2) # EmptyBag
        /\ SumWeights(GradesOf(class_id, s2)) > 0

AverageExact(value, suma, pesos) == value * pesos = 50 * suma

AverageRounded(value, suma, pesos) ==
    LET d == value * pesos - 50 * suma
    IN  2 * d <= pesos /\ 2 * (0 - d) <= pesos

\* what C7 says of the averages of one class, with the value exact or rounded
GradeAveragesAre(class_id, exact) ==
    LET averages == PromedioPonderado(grades, students, class_id)
    IN  /\ \A res \in averages :
               /\ res.id \in Range(StudentIds(students))
               /\ GradesOf(class_id, res.id) # EmptyBag
        /\ \A sid \in Range(StudentIds(students)) :
               LET mine == GradesOf(class_id, sid)
                   shown == { res \in averages : res.id = sid }
               IN  IF mine = EmptyBag
                   THEN shown = {}
                   ELSE /\ Cardinality(shown) = 1
                        /\ \A res \in shown :
                               SumWeights(mine) > 0 =>
                                   /\ res.promedio.kind = "number"
                                   /\ IF exact
                                      THEN AverageExact(res.promedio.value,
                                               SumGradeWeights(mine), SumWeights(mine))
                                      ELSE AverageRounded(res.promedio.value,
                                               SumGradeWeights(mine), SumWeights(mine))

\* C7 as written: the averages of a class have one result for each student
\* with a grade row in the class, equal to sum(grade*weight)/sum(weight) over
\* the student's rows in the class (where the weights do not sum to 0), and
\* none for a student without a row in the class.
C7_AverageExact ==
    \A class_id \in ClassIds : GradeAveragesAre(class_id, TRUE)

\* C7 as amended: the same, with the result equal to
\* sum(grade*weight)/sum(weight) rounded to two decimal places; grade 80 of
\* weight 1 and grade 90 of weight 3 give 87.50.
C7_WeightedAverage ==
    /\ \A class_id \in ClassIds : GradeAveragesAre(class_id, FALSE)
    /\ Promedio(160 * 10 + 180 * 30, 10 + 30) = [kind |-> "number", value |-> 8750]

\* a student has the grades (80, weight 1) and (90, weight 3) in one class,
\* shown as 87.50, beside a grade row of the same student in another class
C7_Witness ==
    \E c1, c2 \in ClassIds : \E sid \in Range(StudentIds(students)) :
        /\ c1 # c2
        /\ GradesOf(c1, sid) =
               SetToBag({ [class_id |-> c1, student_id |-> sid, grade |-> 160, weight |-> 10],
                          [class_id |-> c1, student_id |-> sid, grade |-> 180, weight |-> 30] })
        /\ GradesOf(c2, sid) # EmptyBag
        /\ \E res \in PromedioPonderado(grades, students, c1) :
               res.id = sid /\ res.promedio = [kind |-> "number", value |-> 8750]

\* ------------------------------------------------------------ claims, exams
\* C5: a delete ends in the success message and removes exactly the row of
\* the selected id, whether the file was removed, was already missing or
\* could not be removed; the file is gone when the unlink worked and the
\* directory is as it was when it did not.  (A step that leaves the clock
\* alone and ends with last.op = "delete" is a step of the delete handler.)
C5_DeleteRemovesRow ==
    [][ (last'.op = "delete" /\ now' = now) =>
            LET sel == last'.arg.sel
                rows == { e \in exams : e.id = sel }
            IN  /\ last'.msg = "success"
                /\ Cardinality(rows) = 1
                /\ exams' = exams \ rows
                /\ \A e \in exams' : e.id # sel
                /\ \A row \in rows :
                       IF last'.arg.unlink = "removed"
                       THEN /\ row.file_name \in DOMAIN files
                            /\ DOMAIN files' = DOMAIN files \ {row.file_name}
                       ELSE files' = files
      ]_vars

\* a record whose file was already missing from the directory was just
\* deleted, and its row is gone
C5_Witness ==
    /\ last.op = "delete" /\ last.msg = "success"
    /\ last.arg.unlink = "missing"
    /\ \A e \in exams : e.id # last.arg.sel

\* C9: an upload that adds a record ends in success and the file the record
\* names is completely written in the same step; an upload whose open or
\* write fails ends in the exception and adds no record; an upload removes
\* no record.
C9_RecordOnlyAfterWrite ==
    [][ (last'.op = "upload" /\ now' = now) =>
            /\ \A e \in exams' \ exams :
                   /\ last'.msg = "success"
                   /\ e.file_name \in DOMAIN files'
                   /\ files'[e.file_name] = "complete"
            /\ (last'.arg.file.uploaded /\ last'.arg.io # "ok") =>
                   /\ last'.msg = "exception"
                   /\ exams' = exams
                   /\ examSeq' = examSeq
            /\ exams \subseteq exams'
      ]_vars

\* an upload whose write failed just ended in the exception: its partly
\* written file is in the directory and no record names it, while another
\* record exists
C9_Witness ==
    /\ last.op = "upload" /\ last.msg = "exception"
    /\ last.arg.io = "write_fails"
    /\ exams # {}
    /\ \E n \in DOMAIN files :
           /\ files[n] = "partial"
           /\ n[2] = last.arg.file.name
           /\ \A e \in exams : e.file_name # n

\* C10: no two exam records have the same stored file name.
C10_StoredNamesDistinct ==
    \A e1, e2 \in exams : e1.file_name = e2.file_name => e1 = e2

\* ------------------------------------------------------------ claims, grade rows
\* C11 as written: in every step of every handler the grade rows of before
\* are all still there, each as often as before.
C11_GradesNeverRemoved ==
    [][ grades \sqsubseteq grades' ]_vars

\* C11 as amended: the same for every step but a database wipe whose unlink
\* of the database file worked, which empties all tables (a step that ends
\* with last.op = "wipe" is a step of the wipe handler and last.arg tells
\* whether the file was unlinked).
C11_GradesAppendOnly ==
    [][ \/ (last'.op = "wipe" /\ last'.arg)
        \/ grades \sqsubseteq grades' ]_vars

\* grade rows were written and a wipe whose unlink failed has just left them
\* in place
C11_Witness ==
    /\ last.op = "wipe"
    /\ BagCardinality(grades) >= 2

====
